---- MODULE Spec2Model ----
(***************************************************************************)
(* Model of ansible_rulebook/collection.py: the collection locator         *)
(* (find_collection behind functools.lru_cache), the resource resolver     *)
(* (has_object / find_object and their conveniences, load_rulebook) and    *)
(* the deprecation resolver (is_deprecated).                               *)
(*                                                                         *)
(* Python values are records tagged by type: None, bool, str, list, dict.  *)
(* A Python str is a sequence of one-character strings, so that split,     *)
(* join, concatenation, slicing and iteration over a str are computed as   *)
(* Python computes them.                                                   *)
(***************************************************************************)
EXTENDS Integers, Sequences, FiniteSets, TLC

VARIABLES
    ansible_galaxy_path, \* settings.ansible_galaxy_path: TRUE when set, FALSE when None
    cache,               \* the lru_cache of find_collection, least recently used first
    fs,                  \* the filesystem: the set of existing entries (normalised paths)
    runtime_doc,         \* what yaml.safe_load gives for each existing meta/runtime.yml
    hist,                \* history: the names located so far, least recently used first
    last                 \* the last call of the library: its arguments and its outcome

vars == <<ansible_galaxy_path, cache, fs, runtime_doc, hist, last>>

(***************************************************************************)
(* Python values and call outcomes                                         *)
(***************************************************************************)
PyNone == [t |-> "None"]
PyBool(b) == [t |-> "bool", b |-> b]
PyStr(s) == [t |-> "str", s |-> s]
PyList(l) == [t |-> "list", l |-> l]
PyDict(d) == [t |-> "dict", d |-> d]
PyTuple(l) == [t |-> "tuple", l |-> l]

Return(v) == [kind |-> "return", value |-> v]
Raise(e) == [kind |-> "raise", exc |-> e]
RaiseWith(e, a) == [kind |-> "raise", exc |-> e, args |-> a]

(***************************************************************************)
(* str operations                                                          *)
(***************************************************************************)
startswith(s, p) == Len(s) >= Len(p) /\ SubSeq(s, 1, Len(p)) = p

endswith(s, p) == Len(s) >= Len(p) /\ SubSeq(s, Len(s) - Len(p) + 1, Len(s)) = p

\* s.split(c) for a one-character separator c: a scan from character i on, with
\* the pieces made so far and the piece being read
RECURSIVE split_scan(_, _, _, _, _)
split_scan(s, c, i, pieces, piece) ==
    IF i > Len(s) THEN Append(pieces, piece)
    ELSE IF s[i] = c THEN split_scan(s, c, i + 1, Append(pieces, piece), <<>>)
    ELSE split_scan(s, c, i + 1, pieces, Append(piece, s[i]))

split(s, c) == split_scan(s, c, 1, <<>>, <<>>)

\* sep.join(parts)
RECURSIVE join(_, _)
join(sep, parts) ==
    IF parts = <<>> THEN <<>>
    ELSE IF Len(parts) = 1 THEN parts[1]
    ELSE parts[1] \o sep \o join(sep, Tail(parts))

\* os.path.join(a, *p) of posixpath
RECURSIVE os_path_join(_, _)
os_path_join(a, p) ==
    IF p = <<>> THEN a
    ELSE LET b == p[1]
             path == IF startswith(b, <<"/">>) THEN b
                     ELSE IF a = <<>> \/ endswith(a, <<"/">>) THEN a \o b
                     ELSE a \o <<"/">> \o b
         IN  os_path_join(path, Tail(p))

\* The components the kernel walks for a path: empty components and "." are skipped.
\* Relative paths are resolved against the root directory.
RECURSIVE DropDots(_)
DropDots(cs) ==
    IF cs = <<>> THEN <<>>
    ELSE IF cs[1] = <<>> \/ cs[1] = <<".">> THEN DropDots(Tail(cs))
    ELSE <<cs[1]>> \o DropDots(Tail(cs))

Components(path) == DropDots(split(path, "/"))

IsPrefix(p, q) == Len(p) <= Len(q) /\ SubSeq(q, 1, Len(p)) = p

\* os.path.exists(path): an entry exists, and so does every directory above it
os_path_exists(path, files) ==
    LET walked == Components(path)
    IN  /\ path # <<>>
        /\ \/ walked = <<>>
           \/ \E e \in files : IsPrefix(walked, e)

(***************************************************************************)
(* String literals of the module                                           *)
(***************************************************************************)
EDA_PATH_PREFIX == <<"e", "x", "t", "e", "n", "s", "i", "o", "n", "s", "/", "e", "d", "a">>
EDA_EXTENSIONS == <<"e", "x", "t", "e", "n", "s", "i", "o", "n", "s", ".", "e", "d", "a">>
EVENT_SOURCE_OBJ_TYPE == <<"e", "v", "e", "n", "t", "_", "s", "o", "u", "r", "c", "e">>
EVENT_SOUURCE_FILTER_OBJ_TYPE == <<"e", "v", "e", "n", "t", "_", "f", "i", "l", "t", "e", "r">>

EDA_FILTER_PATHS ==
    PyList(<< EDA_PATH_PREFIX \o <<"/", "p", "l", "u", "g", "i", "n", "s", "/", "e", "v", "e", "n", "t", "_", "f", "i", "l", "t", "e", "r">>,
              EDA_PATH_PREFIX \o <<"/", "p", "l", "u", "g", "i", "n", "s", "/", "e", "v", "e", "n", "t", "_", "f", "i", "l", "t", "e", "r", "s">>,
              <<"p", "l", "u", "g", "i", "n", "s", "/", "e", "v", "e", "n", "t", "_", "f", "i", "l", "t", "e", "r">> >>)

EDA_SOURCE_PATHS ==
    PyList(<< EDA_PATH_PREFIX \o <<"/", "p", "l", "u", "g", "i", "n", "s", "/", "e", "v", "e", "n", "t", "_", "s", "o", "u", "r", "c", "e">>,
              EDA_PATH_PREFIX \o <<"/", "p", "l", "u", "g", "i", "n", "s", "/", "e", "v", "e", "n", "t", "_", "s", "o", "u", "r", "c", "e", "s">>,
              <<"p", "l", "u", "g", "i", "n", "s", "/", "e", "v", "e", "n", "t", "_", "s", "o", "u", "r", "c", "e">> >>)

EDA_PLAYBOOKS_PATHS == PyList(<< <<".">>, <<"p", "l", "a", "y", "b", "o", "o", "k", "s">> >>)

EDA_YAML_EXTENSIONS == PyList(<< <<".", "y", "m", "l">>, <<".", "y", "a", "m", "l">> >>)

\* [f"{EDA_PATH_PREFIX}/rulebooks", "rulebooks"] and ".yml" of has_rulebook and load_rulebook
RULEBOOK_PATHS == PyList(<< EDA_PATH_PREFIX \o <<"/", "r", "u", "l", "e", "b", "o", "o", "k", "s">>, <<"r", "u", "l", "e", "b", "o", "o", "k", "s">> >>)
YML == <<".", "y", "m", "l">>
YAML == <<".", "y", "a", "m", "l">>
PY == <<".", "p", "y">>
META == <<"m", "e", "t", "a">>
RUNTIME_YML == <<"r", "u", "n", "t", "i", "m", "e", ".", "y", "m", "l">>
COMMENT_MARKER == << "#", " " >>
PLUGINS_INFIX == <<".", "p", "l", "u", "g", "i", "n", "s", ".">>
PLUGIN_ROUTING == <<"p", "l", "u", "g", "i", "n", "_", "r", "o", "u", "t", "i", "n", "g">>
REDIRECT == <<"r", "e", "d", "i", "r", "e", "c", "t">>
DEPRECATION == <<"d", "e", "p", "r", "e", "c", "a", "t", "i", "o", "n">>
WARNING_TEXT == <<"w", "a", "r", "n", "i", "n", "g", "_", "t", "e", "x", "t">>
REMOVAL_VERSION == <<"r", "e", "m", "o", "v", "a", "l", "_", "v", "e", "r", "s", "i", "o", "n">>
REMOVAL_PREFIX == <<" ", "I", "t", " ", "w", "i", "l", "l", " ", "b", "e", " ", "r", "e", "m", "o", "v", "e", "d", " ", "i", "n", " ", "v", "e", "r", "s", "i", "o", "n", " ">>

(***************************************************************************)
(* The package lister: one run of `<lister> collection list <name>`        *)
(***************************************************************************)
\* The lines the lister may print (output.decode().splitlines())
LINE_A == << "#", " ", "/", "A" >>
LINE_B == << "#", " ", "/", "B" >>
LINE_NO_SPACE == << "#", "/", "A" >>
LINE_HEADER == << "C", "o", "l" >>
ListerLines == {LINE_A, LINE_B, LINE_NO_SPACE, LINE_HEADER}

MaxLines == 2

SeqsUpTo(S, n) == UNION {[1..k -> S] : k \in 0..n}

\* What one subprocess.check_output call can do: fail to spawn (OSError), exit
\* nonzero (CalledProcessError), or exit zero with output that decodes or not.
ListerRunsOver(lines, n) ==
    {[status |-> s, lines |-> <<>>] : s \in {"spawn_error", "nonzero", "undecodable"}}
    \cup {[status |-> "ok", lines |-> l] : l \in SeqsUpTo(lines, n)}

ListerRuns == ListerRunsOver(ListerLines, MaxLines)

\* The lines met by the resource resolver, whose files all live under /A: a
\* line that names the base directory and a line that names none. The resolver
\* sees the lister through find_collection only, whose loop over several lines
\* is the business of FindCollection; one line decides found or not found.
ResolverLines == {LINE_A, LINE_HEADER}

\* The loop over output.splitlines() of find_collection
RECURSIVE scan_lines(_, _, _)
scan_lines(lines, parts, files) ==
    IF lines = <<>> THEN PyNone
    ELSE LET line == lines[1]
             location == os_path_join(SubSeq(line, 3, Len(line)), parts)
         IN  IF startswith(line, COMMENT_MARKER) /\ os_path_exists(location, files)
             THEN PyStr(location)
             ELSE scan_lines(Tail(lines), parts, files)

\* Mutant of find_collection_body: CalledProcessError is not caught
find_collection_body_uncaught(name, galaxy, run, files) ==
    IF ~galaxy THEN Raise("Exception")
    ELSE IF run.status = "spawn_error" THEN Raise("OSError")
    ELSE IF run.status = "nonzero" THEN Raise("CalledProcessError")
    ELSE IF run.status = "undecodable" THEN Raise("UnicodeDecodeError")
    ELSE Return(scan_lines(run.lines, split(name, "."), files))

\* The body of find_collection, without the cache
find_collection_body(name, galaxy, run, files) ==
    IF ~galaxy THEN Raise("Exception")
    ELSE IF run.status = "spawn_error" THEN Raise("OSError")
    ELSE IF run.status = "nonzero" THEN Return(PyNone)
    ELSE IF run.status = "undecodable" THEN Raise("UnicodeDecodeError")
    ELSE Return(scan_lines(run.lines, split(name, "."), files))

(***************************************************************************)
(* functools.lru_cache (maxsize 128): entries least recently used first    *)
(***************************************************************************)
lru_maxsize == 128

cache_keys(c) == {c[i].key : i \in DOMAIN c}

cache_index(c, k) == CHOOSE i \in DOMAIN c : c[i].key = k

cache_without(c, k) == SelectSeq(c, LAMBDA e : e.key # k)

\* Mutant of lru_hit: a hit leaves the order alone (first in, first out)
lru_hit_fifo(c, k) == c

\* A hit makes the entry the most recently used one
lru_hit(c, k) == Append(cache_without(c, k), c[cache_index(c, k)])

\* Mutant of lru_store: nothing is stored (the function is not memoized)
lru_store_nothing(c, k, v) == c

\* A miss stores the result; a full cache drops its least recently used entry
lru_store(c, k, v) ==
    IF Len(c) >= lru_maxsize
    THEN Append(Tail(c), [key |-> k, val |-> v])
    ELSE Append(c, [key |-> k, val |-> v])

\* find_collection(name) behind @lru_cache: the outcome, the cache afterwards and
\* whether the lister process ran. A call that raises stores nothing.
find_collection(name, c, galaxy, run, files) ==
    IF name \in cache_keys(c)
    THEN [out |-> Return(c[cache_index(c, name)].val), cache |-> lru_hit(c, name),
          ran |-> FALSE]
    ELSE LET r == find_collection_body(name, galaxy, run, files)
         IN  [out |-> r,
              cache |-> IF r.kind = "return" THEN lru_store(c, name, r.value) ELSE c,
              ran |-> galaxy /\ run.status # "spawn_error"]

\* The history: the names whose lookup returned, and what it returned, least
\* recently used first; nothing is ever dropped from it.
hist_after(h, name, out) ==
    IF out.kind = "return"
    THEN Append(SelectSeq(h, LAMBDA e : e.key # name), [key |-> name, val |-> out.value])
    ELSE h

(***************************************************************************)
(* Resource resolver: has_object, find_object                              *)
(***************************************************************************)
\* `for x in v`: a list gives its elements, a str its characters
iter(v) ==
    IF v.t = "list" THEN v.l
    ELSE [i \in 1..Len(v.s) |-> <<v.s[i]>>]

\* Mutant of as_extension_list: a single extension is not wrapped, so iterated
as_extension_list_chars(v) == iter(v)

\* `if not isinstance(extensions, list): extensions = [extensions]`
as_extension_list(v) == IF v.t = "list" THEN v.l ELSE <<v.s>>

\* The inner loop: one probe per extension under one object_type
probes_under(base, object_type, name, exts) ==
    [i \in 1..Len(exts) |->
        [object_type |-> object_type,
         location |-> os_path_join(base, <<object_type, name>>) \o exts[i]]]

\* Mutant of probes: the loops nested the other way round, extensions outside
RECURSIVE probes_extension_outer(_, _, _, _)
probes_extension_outer(base, object_types, name, exts) ==
    IF exts = <<>> THEN <<>>
    ELSE [i \in 1..Len(object_types) |->
             [object_type |-> object_types[i],
              location |-> os_path_join(base, <<object_types[i], name>>) \o exts[1]]]
         \o probes_extension_outer(base, object_types, name, Tail(exts))

\* The outer loop over object_types: every probe, in the order the loops make them
RECURSIVE probes(_, _, _, _)
probes(base, object_types, name, exts) ==
    IF object_types = <<>> THEN <<>>
    ELSE probes_under(base, object_types[1], name, exts)
         \o probes(base, Tail(object_types), name, exts)

\* Mutant of first_existing: the first probe is taken without os.path.exists
first_existing_unchecked(ps, files) == IF ps = <<>> THEN 0 ELSE 1

\* The index of the first probe from i on whose location exists, 0 when none does
RECURSIVE first_existing_from(_, _, _)
first_existing_from(ps, i, files) ==
    IF i > Len(ps) THEN 0
    ELSE IF os_path_exists(ps[i].location, files) THEN i
    ELSE first_existing_from(ps, i + 1, files)

first_existing(ps, files) == first_existing_from(ps, 1, files)

\* The cache after the find_collection(collection) calls inside the loops: hits
cache_after_probes(c, collection, ps) ==
    IF ps = <<>> THEN c ELSE lru_hit(c, collection)

has_object(collection, name, object_types, extensions, c, galaxy, run, files) ==
    LET fc == find_collection(collection, c, galaxy, run, files)
    IN  IF fc.out.kind = "raise" THEN fc
        ELSE IF fc.out.value = PyNone
        THEN [out |-> Return(PyBool(FALSE)), cache |-> fc.cache, ran |-> fc.ran]
        ELSE LET ps == probes(fc.out.value.s, iter(object_types), name,
                              as_extension_list(extensions))
             IN  [out |-> Return(PyBool(first_existing(ps, files) # 0)),
                  cache |-> cache_after_probes(fc.cache, collection, ps),
                  ran |-> fc.ran]

\* What the raise statement after the loops does: the message reads the loop
\* variables object_type and location, which are unbound when a loop never ran
raise_not_found(collection, name, ps) ==
    IF ps = <<>> THEN Raise("UnboundLocalError")
    ELSE RaiseWith("FileNotFoundError",
                   [object_type |-> ps[Len(ps)].object_type, name |-> name,
                    collection |-> collection, location |-> ps[Len(ps)].location])

find_object(collection, name, object_types, extensions, c, galaxy, run, files) ==
    LET fc == find_collection(collection, c, galaxy, run, files)
    IN  IF fc.out.kind = "raise" THEN fc
        ELSE IF fc.out.value = PyNone
        THEN [out |-> Return(PyBool(FALSE)), cache |-> fc.cache, ran |-> fc.ran]
        ELSE LET ps == probes(fc.out.value.s, iter(object_types), name,
                              as_extension_list(extensions))
                 i == first_existing(ps, files)
             IN  [out |-> IF i # 0 THEN Return(PyStr(ps[i].location))
                          ELSE raise_not_found(collection, name, ps),
                  cache |-> cache_after_probes(fc.cache, collection, ps),
                  ran |-> fc.ran]

has_rulebook(collection, rulebook, c, galaxy, run, files) ==
    has_object(collection, rulebook, RULEBOOK_PATHS, PyStr(YML), c, galaxy, run, files)

\* Mutant of py_not: `location is None` in place of `not location`
py_is_none(v) == v.t = "None"

\* `not x` for the values find_object returns
py_not(v) ==
    IF v.t = "bool" THEN ~v.b
    ELSE IF v.t = "str" THEN v.s = <<>>
    ELSE v.t = "None"

\* What reading and decoding the located rulebook gives: the bytes are the
\* environment's, so is the answer of has_vaulted_str and of yaml.safe_load
RulebookReads ==
    {[status |-> "ok", vaulted |-> v, parsed |-> p] :
        v \in BOOLEAN, p \in {PyNone, PyList(<<>>)}}
    \cup {[status |-> "yaml_error"]}

load_rulebook(collection, rulebook, c, galaxy, run, files, read) ==
    LET fo == find_object(collection, rulebook, RULEBOOK_PATHS, PyStr(YML),
                          c, galaxy, run, files)
    IN  IF fo.out.kind = "raise" THEN fo
        ELSE IF py_not(fo.out.value)
        THEN [out |-> Raise("RulebookNotFoundException"), cache |-> fo.cache,
              ran |-> fo.ran]
        ELSE [out |-> IF read.status = "ok"
                      THEN Return(PyTuple(<<PyBool(read.vaulted), read.parsed>>))
                      ELSE Raise("YAMLError"),
              cache |-> fo.cache, ran |-> fo.ran]

has_source(collection, source, c, galaxy, run, files) ==
    has_object(collection, source, EDA_SOURCE_PATHS, PyStr(PY), c, galaxy, run, files)

find_source(collection, source, c, galaxy, run, files) ==
    find_object(collection, source, EDA_SOURCE_PATHS, PyStr(PY), c, galaxy, run, files)

has_source_filter(collection, source_filter, c, galaxy, run, files) ==
    has_object(collection, source_filter, EDA_FILTER_PATHS, PyStr(PY),
               c, galaxy, run, files)

find_source_filter(collection, source_filter, c, galaxy, run, files) ==
    find_object(collection, source_filter, EDA_FILTER_PATHS, PyStr(PY),
                c, galaxy, run, files)

has_playbook(collection, playbook, c, galaxy, run, files) ==
    has_object(collection, playbook, EDA_PLAYBOOKS_PATHS, EDA_YAML_EXTENSIONS,
               c, galaxy, run, files)

find_playbook(collection, playbook, c, galaxy, run, files) ==
    find_object(collection, playbook, EDA_PLAYBOOKS_PATHS, EDA_YAML_EXTENSIONS,
                c, galaxy, run, files)

(***************************************************************************)
(* Deprecation resolver: is_deprecated                                     *)
(***************************************************************************)
\* sub in s, for two strs
contains(s, sub) ==
    \E i \in 0..(Len(s) - Len(sub)) : SubSeq(s, i + 1, i + Len(sub)) = sub

\* `k in v` for a str k
py_in(k, v) ==
    IF v.t = "dict" THEN Return(PyBool(k \in DOMAIN v.d))
    ELSE IF v.t = "str" THEN Return(PyBool(contains(v.s, k)))
    ELSE IF v.t = "list" THEN Return(PyBool(\E i \in DOMAIN v.l : v.l[i] = PyStr(k)))
    ELSE Raise("TypeError")

\* v[k] for a str k
py_getitem(v, k) ==
    IF v.t = "dict"
    THEN IF k \in DOMAIN v.d THEN Return(v.d[k]) ELSE Raise("KeyError")
    ELSE Raise("TypeError")

\* v.get(k, default)
py_get(v, k, default) ==
    IF v.t = "dict"
    THEN Return(IF k \in DOMAIN v.d THEN v.d[k] ELSE default)
    ELSE Raise("AttributeError")

\* bool(v)
py_truthy(v) ==
    IF v.t = "None" THEN FALSE
    ELSE IF v.t = "bool" THEN v.b
    ELSE IF v.t = "str" THEN v.s # <<>>
    ELSE IF v.t = "list" THEN v.l # <<>>
    ELSE DOMAIN v.d # {}

EMPTY_DICT == PyDict(<<>>)

NOT_DEPRECATED == Return(PyTuple(<<PyBool(FALSE), PyNone>>))

\* Lines 149-159: the warning, then (True, redirect). A removal_version that is
\* set is a str in every document of the model.
deprecation_result(deprecated_item) ==
    LET details == py_get(deprecated_item, DEPRECATION, EMPTY_DICT)
    IN  IF details.kind = "raise" THEN [out |-> details, log |-> PyNone]
        ELSE
        LET warning_text == py_get(details.value, WARNING_TEXT, PyStr(<<>>))
            removal_version == py_get(details.value, REMOVAL_VERSION, PyNone)
        IN  IF warning_text.kind = "raise" THEN [out |-> warning_text, log |-> PyNone]
            ELSE IF ~py_truthy(removal_version.value)
            THEN [out |-> Return(PyTuple(<<PyBool(TRUE), deprecated_item.d[REDIRECT]>>)),
                  log |-> warning_text.value]
            ELSE IF warning_text.value.t # "str"
            THEN [out |-> Raise("TypeError"), log |-> PyNone]
            ELSE [out |-> Return(PyTuple(<<PyBool(TRUE), deprecated_item.d[REDIRECT]>>)),
                  log |-> PyStr(warning_text.value.s \o REMOVAL_PREFIX
                                \o removal_version.value.s \o <<".">>)]

\* Mutant of plugin_routing_key: the object kind is not part of the key
plugin_routing_key_filter(obj_type) ==
    EDA_EXTENSIONS \o PLUGINS_INFIX \o EVENT_SOUURCE_FILTER_OBJ_TYPE

\* f"{EDA_EXTENSIONS}.plugins.{obj_type}"
plugin_routing_key(obj_type) == EDA_EXTENSIONS \o PLUGINS_INFIX \o obj_type

\* Lines 141-161: the lookup in the decoded meta/runtime.yml
routing_lookup(data, name, obj_type) ==
    IF data.t = "invalid" THEN [out |-> Raise("YAMLError"), log |-> PyNone]
    ELSE
    LET has_routing == py_in(PLUGIN_ROUTING, data)
    IN  IF has_routing.kind = "raise" THEN [out |-> has_routing, log |-> PyNone]
        ELSE IF ~has_routing.value.b THEN [out |-> NOT_DEPRECATED, log |-> PyNone]
        ELSE
        LET routing == py_getitem(data, PLUGIN_ROUTING)
        IN  IF routing.kind = "raise" THEN [out |-> routing, log |-> PyNone]
            ELSE
            LET deprecated_objs ==
                    py_get(routing.value, plugin_routing_key(obj_type), EMPTY_DICT)
            IN  IF deprecated_objs.kind = "raise"
                THEN [out |-> deprecated_objs, log |-> PyNone]
                ELSE
                LET deprecated_item == py_get(deprecated_objs.value, name, EMPTY_DICT)
                IN  IF deprecated_item.kind = "raise"
                    THEN [out |-> deprecated_item, log |-> PyNone]
                    ELSE
                    LET has_redirect == py_in(REDIRECT, deprecated_item.value)
                    IN  IF has_redirect.kind = "raise"
                        THEN [out |-> has_redirect, log |-> PyNone]
                        ELSE IF ~has_redirect.value.b
                        THEN [out |-> NOT_DEPRECATED, log |-> PyNone]
                        ELSE IF deprecated_item.value.t # "dict"
                        THEN [out |-> Raise("AttributeError"), log |-> PyNone]
                        ELSE deprecation_result(deprecated_item.value)

\* parts[:-1]
all_but_last(parts) == SubSeq(parts, 1, Len(parts) - 1)

\* is_deprecated(name, obj_type): the outcome, the cache afterwards, whether the
\* lister ran, the warning logged, what find_collection did (`locator`), the
\* collection directory it gave (`path`) and what became of meta/runtime.yml (`read`)
is_deprecated(name, obj_type, c, galaxy, run, files, docs) ==
    LET parts == split(name, ".")
    IN  IF Len(parts) < 2
        THEN [out |-> NOT_DEPRECATED, cache |-> c, ran |-> FALSE, log |-> PyNone,
              locator |-> "not consulted", path |-> PyNone, read |-> "none"]
        ELSE
        LET collection_name == join(<<".">>, all_but_last(parts))
            fc == find_collection(collection_name, c, galaxy, run, files)
        IN  IF fc.out.kind = "raise"
            THEN [out |-> fc.out, cache |-> fc.cache, ran |-> fc.ran, log |-> PyNone,
                  locator |-> "raised", path |-> PyNone, read |-> "none"]
            ELSE IF fc.out.value = PyNone
            THEN [out |-> NOT_DEPRECATED, cache |-> fc.cache, ran |-> fc.ran,
                  log |-> PyNone, locator |-> "returned", path |-> PyNone,
                  read |-> "none"]
            ELSE
            LET runtime_yml == os_path_join(fc.out.value.s, <<META, RUNTIME_YML>>)
            IN  IF ~os_path_exists(runtime_yml, files)
                THEN [out |-> NOT_DEPRECATED, cache |-> fc.cache, ran |-> fc.ran,
                      log |-> PyNone, locator |-> "returned", path |-> fc.out.value,
                      read |-> "none"]
                ELSE IF Components(runtime_yml) \notin DOMAIN docs
                THEN [out |-> Raise("OSError"), cache |-> fc.cache, ran |-> fc.ran,
                      log |-> PyNone, locator |-> "returned", path |-> fc.out.value,
                      read |-> "unreadable"]
                ELSE
                LET data == docs[Components(runtime_yml)]
                    r == routing_lookup(data, name, obj_type)
                IN  [out |-> r.out, cache |-> fc.cache, ran |-> fc.ran, log |-> r.log,
                     locator |-> "returned", path |-> fc.out.value,
                     read |-> IF data.t = "invalid" THEN "undecodable" ELSE "decoded"]

(***************************************************************************)
(* The inputs and the environment                                          *)
(***************************************************************************)
COLL_AB == << "a", ".", "b" >>
COLL_C == << "c" >>
PLUGIN_ABP == << "a", ".", "b", ".", "p" >>
PLUGIN_CP == << "c", ".", "p" >>
PLUGIN_P == << "p" >>
RESOURCE_R == << "r" >>
TARGET_1 == << "t", "1" >>
TARGET_2 == << "t", "2" >>

CollectionNames == {COLL_AB, COLL_C}
PluginNames == {PLUGIN_ABP, PLUGIN_CP, PLUGIN_P}
ObjTypes == {EVENT_SOURCE_OBJ_TYPE, EVENT_SOUURCE_FILTER_OBJ_TYPE}

\* The directory of collection a.b under the base directory a lister line names
dir_of(line) == os_path_join(SubSeq(line, 3, Len(line)), split(COLL_AB, "."))

CollectionDirs == {Components(dir_of(LINE_A)), Components(dir_of(LINE_B))}

RuntimeFiles == {Components(os_path_join(dir_of(LINE_A), <<META, RUNTIME_YML>>))}

range(f) == {f[i] : i \in DOMAIN f}

\* Every file the conveniences probe for resource r of a.b installed under /A
ResourceEntries ==
    {Components(p.location) :
        p \in range(probes(dir_of(LINE_A), RULEBOOK_PATHS.l, RESOURCE_R, <<YML>>))
              \cup range(probes(dir_of(LINE_A), EDA_SOURCE_PATHS.l, RESOURCE_R, <<PY>>))
              \cup range(probes(dir_of(LINE_A), EDA_FILTER_PATHS.l, RESOURCE_R, <<PY>>))
              \cup range(probes(dir_of(LINE_A), EDA_PLAYBOOKS_PATHS.l, RESOURCE_R,
                                EDA_YAML_EXTENSIONS.l))}

\* The arguments has_object and find_object are called with
ObjectTypesArgs ==
    {PyList(<<>>), PyList(<< EDA_PLAYBOOKS_PATHS.l[2] >>), EDA_PLAYBOOKS_PATHS,
     PyList(<< EDA_PLAYBOOKS_PATHS.l[2], EDA_PLAYBOOKS_PATHS.l[1] >>),
     PyStr(EDA_PLAYBOOKS_PATHS.l[2])}

ExtensionsArgs == {PyList(<<>>), EDA_YAML_EXTENSIONS, PyList(<<YAML, YML>>), PyStr(YML)}

MaxEntries == 2

\* The decoded contents meta/runtime.yml may have
routing_key(obj_type) == EDA_EXTENSIONS \o PLUGINS_INFIX \o obj_type

routing_doc(obj_type, name, item) ==
    PyDict(PLUGIN_ROUTING :> PyDict(routing_key(obj_type) :> PyDict(name :> item)))

DEPRECATION_FULL ==
    PyDict(WARNING_TEXT :> PyStr(<<"w">>) @@ REMOVAL_VERSION :> PyStr(<<"2">>))

DOC_EMPTY == PyNone
DOC_INVALID == [t |-> "invalid"]
DOC_SCALAR == PyStr(PLUGIN_ROUTING)
DOC_NO_ROUTING == EMPTY_DICT
DOC_ROUTING_NULL == PyDict(PLUGIN_ROUTING :> PyNone)
DOC_ROUTING_EMPTY == PyDict(PLUGIN_ROUTING :> EMPTY_DICT)
DOC_KIND_NULL ==
    PyDict(PLUGIN_ROUTING :> PyDict(routing_key(EVENT_SOUURCE_FILTER_OBJ_TYPE) :> PyNone))
DOC_ITEM_NULL == routing_doc(EVENT_SOUURCE_FILTER_OBJ_TYPE, PLUGIN_ABP, PyNone)
DOC_NO_REDIRECT ==
    routing_doc(EVENT_SOUURCE_FILTER_OBJ_TYPE, PLUGIN_ABP,
                PyDict(DEPRECATION :> DEPRECATION_FULL))
DOC_DEPRECATION_NULL ==
    routing_doc(EVENT_SOUURCE_FILTER_OBJ_TYPE, PLUGIN_ABP,
                PyDict(REDIRECT :> PyStr(TARGET_1) @@ DEPRECATION :> PyNone))
DOC_FILTER ==
    routing_doc(EVENT_SOUURCE_FILTER_OBJ_TYPE, PLUGIN_ABP,
                PyDict(REDIRECT :> PyStr(TARGET_1) @@ DEPRECATION :> DEPRECATION_FULL))
DOC_SOURCE ==
    routing_doc(EVENT_SOURCE_OBJ_TYPE, PLUGIN_ABP, PyDict(REDIRECT :> PyStr(TARGET_2)))
DOC_LEAF ==
    routing_doc(EVENT_SOUURCE_FILTER_OBJ_TYPE, PLUGIN_P,
                PyDict(REDIRECT :> PyStr(TARGET_1)))

RuntimeDocs ==
    {DOC_EMPTY, DOC_INVALID, DOC_SCALAR, DOC_NO_ROUTING, DOC_ROUTING_NULL,
     DOC_ROUTING_EMPTY, DOC_KIND_NULL, DOC_ITEM_NULL, DOC_NO_REDIRECT,
     DOC_DEPRECATION_NULL, DOC_FILTER, DOC_SOURCE, DOC_LEAF}

\* No call is in progress: the caller and the environment take their steps
NoCall == [op |-> "none"]

\* The environment makes a file or directory
CreateEntry(universe) ==
    /\ last = NoCall
    /\ Cardinality(fs) < MaxEntries
    /\ \E e \in universe \ fs : fs' = fs \cup {e}
    /\ UNCHANGED <<ansible_galaxy_path, cache, runtime_doc, hist, last>>

\* The environment removes a file or directory
RemoveEntry ==
    /\ last = NoCall
    /\ \E e \in fs :
        /\ fs' = fs \ {e}
        /\ runtime_doc' = [f \in DOMAIN runtime_doc \ {e} |-> runtime_doc[f]]
    /\ UNCHANGED <<ansible_galaxy_path, cache, hist, last>>

\* The environment writes (or rewrites) a meta/runtime.yml
WriteRuntime ==
    /\ last = NoCall
    /\ \E f \in RuntimeFiles, d \in RuntimeDocs :
        /\ f \in fs \/ Cardinality(fs) < MaxEntries
        /\ f \in DOMAIN runtime_doc => runtime_doc[f] # d
        /\ fs' = fs \cup {f}
        /\ runtime_doc' = [g \in DOMAIN runtime_doc \cup {f} |->
                              IF g = f THEN d ELSE runtime_doc[g]]
    /\ UNCHANGED <<ansible_galaxy_path, cache, hist, last>>

(***************************************************************************)
(* The calls of the library                                                *)
(***************************************************************************)
\* What every call leaves behind: the cache, the history of located names and
\* the record of the call. `located` is the outcome of its find_collection.
Finish(call, r, collection, located) ==
    /\ last = NoCall
    /\ cache' = r.cache
    /\ hist' = hist_after(hist, collection, located)
    /\ last' = call @@ [out |-> r.out, ran |-> r.ran, located |-> located]
    /\ UNCHANGED <<ansible_galaxy_path, fs, runtime_doc>>

\* The runs of the lister a call for `collection` can meet: none when the cache
\* answers or the lister path is unset, since check_output is then not reached
NO_RUN == [status |-> "not_run", lines |-> <<>>]

RunsFor(collection) ==
    IF collection \in cache_keys(cache) \/ ~ansible_galaxy_path THEN {NO_RUN}
    ELSE ListerRuns

\* The same for a call of the resource resolver on collection a.b
ResolverRuns ==
    IF RunsFor(COLL_AB) = {NO_RUN} THEN {NO_RUN} ELSE ListerRunsOver(ResolverLines, 1)

\* The caller takes the outcome of the call and goes on
Continue ==
    /\ last # NoCall
    /\ last' = NoCall
    /\ UNCHANGED <<ansible_galaxy_path, cache, fs, runtime_doc, hist>>

Locate(collection, run) == find_collection(collection, cache, ansible_galaxy_path, run, fs).out

FindCollection(names) ==
    \E name \in names : \E run \in RunsFor(name) :
        LET r == find_collection(name, cache, ansible_galaxy_path, run, fs)
        IN  Finish([op |-> "find_collection", collection |-> name, status |-> run.status],
                   r, name, Locate(name, run))

IsDeprecated ==
    \E name \in PluginNames, obj_type \in ObjTypes :
      \E run \in RunsFor(join(<<".">>, all_but_last(split(name, ".")))) :
        LET r == is_deprecated(name, obj_type, cache, ansible_galaxy_path, run, fs,
                               runtime_doc)
            collection == join(<<".">>, all_but_last(split(name, ".")))
        IN  /\ last = NoCall
            /\ cache' = r.cache
            /\ hist' = IF r.locator # "not consulted"
                       THEN hist_after(hist, collection, Locate(collection, run))
                       ELSE hist
            /\ last' = [op |-> "is_deprecated", name |-> name, obj_type |-> obj_type,
                        collection |-> collection, out |-> r.out, ran |-> r.ran,
                        log |-> r.log, locator |-> r.locator, path |-> r.path,
                        read |-> r.read]
            /\ UNCHANGED <<ansible_galaxy_path, fs, runtime_doc>>

HasObject ==
    \E object_types \in ObjectTypesArgs, extensions \in ExtensionsArgs,
       run \in ResolverRuns :
        LET r == has_object(COLL_AB, RESOURCE_R, object_types, extensions,
                          cache, ansible_galaxy_path, run, fs)
        IN  Finish([op |-> "has_object", collection |-> COLL_AB, name |-> RESOURCE_R,
                object_types |-> object_types, extensions |-> extensions],
                   r, COLL_AB, Locate(COLL_AB, run))

FindObject ==
    \E object_types \in ObjectTypesArgs, extensions \in ExtensionsArgs,
       run \in ResolverRuns :
        LET r == find_object(COLL_AB, RESOURCE_R, object_types, extensions,
                          cache, ansible_galaxy_path, run, fs)
        IN  Finish([op |-> "find_object", collection |-> COLL_AB, name |-> RESOURCE_R,
                object_types |-> object_types, extensions |-> extensions],
                   r, COLL_AB, Locate(COLL_AB, run))

HasRulebook ==
    \E run \in ResolverRuns :
        LET r == has_rulebook(COLL_AB, RESOURCE_R, cache, ansible_galaxy_path, run, fs)
        IN  Finish([op |-> "has_rulebook", collection |-> COLL_AB, name |-> RESOURCE_R],
                   r, COLL_AB, Locate(COLL_AB, run))

LoadRulebook ==
    \E run \in RunsFor(COLL_AB), read \in RulebookReads :
        LET r == load_rulebook(COLL_AB, RESOURCE_R, cache, ansible_galaxy_path, run, fs,
                          read)
        IN  Finish([op |-> "load_rulebook", collection |-> COLL_AB, name |-> RESOURCE_R],
                   r, COLL_AB, Locate(COLL_AB, run))

HasSource ==
    \E run \in ResolverRuns :
        LET r == has_source(COLL_AB, RESOURCE_R, cache, ansible_galaxy_path, run, fs)
        IN  Finish([op |-> "has_source", collection |-> COLL_AB, name |-> RESOURCE_R],
                   r, COLL_AB, Locate(COLL_AB, run))

FindSource ==
    \E run \in ResolverRuns :
        LET r == find_source(COLL_AB, RESOURCE_R, cache, ansible_galaxy_path, run, fs)
        IN  Finish([op |-> "find_source", collection |-> COLL_AB, name |-> RESOURCE_R],
                   r, COLL_AB, Locate(COLL_AB, run))

HasSourceFilter ==
    \E run \in ResolverRuns :
        LET r == has_source_filter(COLL_AB, RESOURCE_R, cache, ansible_galaxy_path, run, fs)
        IN  Finish([op |-> "has_source_filter", collection |-> COLL_AB, name |-> RESOURCE_R],
                   r, COLL_AB, Locate(COLL_AB, run))

FindSourceFilter ==
    \E run \in ResolverRuns :
        LET r == find_source_filter(COLL_AB, RESOURCE_R, cache, ansible_galaxy_path, run, fs)
        IN  Finish([op |-> "find_source_filter", collection |-> COLL_AB, name |-> RESOURCE_R],
                   r, COLL_AB, Locate(COLL_AB, run))

HasPlaybook ==
    \E run \in ResolverRuns :
        LET r == has_playbook(COLL_AB, RESOURCE_R, cache, ansible_galaxy_path, run, fs)
        IN  Finish([op |-> "has_playbook", collection |-> COLL_AB, name |-> RESOURCE_R],
                   r, COLL_AB, Locate(COLL_AB, run))

FindPlaybook ==
    \E run \in ResolverRuns :
        LET r == find_playbook(COLL_AB, RESOURCE_R, cache, ansible_galaxy_path, run, fs)
        IN  Finish([op |-> "find_playbook", collection |-> COLL_AB, name |-> RESOURCE_R],
                   r, COLL_AB, Locate(COLL_AB, run))

(***************************************************************************)
(* Specifications                                                          *)
(***************************************************************************)
\* A fresh process: nothing located yet. The lister path is set or not.
Init ==
    /\ ansible_galaxy_path \in BOOLEAN
    /\ cache = <<>>
    /\ hist = <<>>
    /\ fs = {}
    /\ runtime_doc = <<>>
    /\ last = NoCall

\* The resource resolver over collection a.b and its files
Next ==
    \/ FindCollection({COLL_AB})
    \/ HasObject
    \/ FindObject
    \/ HasRulebook
    \/ LoadRulebook
    \/ HasSource
    \/ FindSource
    \/ HasSourceFilter
    \/ FindSourceFilter
    \/ HasPlaybook
    \/ FindPlaybook
    \/ CreateEntry({Components(dir_of(LINE_A))} \cup ResourceEntries)
    \/ RemoveEntry
    \/ Continue

Spec == Init /\ [][Next]_vars

\* 127 further collection names, none of them installed
DIGITS == << "0", "1", "2", "3", "4", "5", "6", "7", "8", "9" >>

FillerName(i) ==
    << "f", DIGITS[(i \div 100) + 1], DIGITS[((i \div 10) % 10) + 1], DIGITS[(i % 10) + 1] >>

\* The cache of a process that located a.b and then lru_maxsize - 1 other names
WarmCache(v) ==
    << [key |-> COLL_AB, val |-> v] >>
    \o [i \in 1..(lru_maxsize - 1) |-> [key |-> FillerName(i), val |-> PyNone]]

\* A fresh process, or one that has already located lru_maxsize names
InitLocator ==
    /\ ansible_galaxy_path \in BOOLEAN
    /\ \/ cache = <<>>
       \/ /\ ansible_galaxy_path
          /\ cache \in {WarmCache(PyNone), WarmCache(PyStr(dir_of(LINE_A)))}
    /\ hist = cache
    /\ fs = {}
    /\ runtime_doc = <<>>
    /\ last = NoCall

\* The locator and the deprecation resolver over collections a.b and c
NextLocator ==
    \/ FindCollection(CollectionNames)
    \/ IsDeprecated
    \/ CreateEntry(CollectionDirs)
    \/ RemoveEntry
    \/ WriteRuntime
    \/ Continue

SpecLocator == InitLocator /\ [][NextLocator]_vars

(***************************************************************************)
(* Properties                                                              *)
(***************************************************************************)
\* The names located so far, and those among the lru_maxsize most recent of them
Located(h) == {h[i].key : i \in DOMAIN h}

Recent(h) == {h[i].key : i \in {j \in DOMAIN h : j > Len(h) - lru_maxsize}}

HistVal(h, k) == h[CHOOSE i \in DOMAIN h : h[i].key = k].val

IsFindCollectionStep == last = NoCall /\ last'.op = "find_collection"

IsDeprecatedStep == last = NoCall /\ last'.op = "is_deprecated"

\* C1 as stated: a find_collection call with a name that was already located
\* returns the cached result and does not run the lister again, however many
\* names were located in between.
C1_LocatedNameNeverListedAgain ==
    [][(IsFindCollectionStep /\ last'.collection \in Located(hist))
        => (~last'.ran /\ last'.out = Return(HistVal(hist, last'.collection)))]_vars

\* C1 amended: a find_collection call with a name that is among the 128 most
\* recently located names returns the cached result and does not run the lister.
C1_RecentNameNeverListedAgain ==
    [][(IsFindCollectionStep /\ last'.collection \in Recent(hist))
        => (~last'.ran /\ last'.out = Return(HistVal(hist, last'.collection)))]_vars

\* C1 witness: a cache hit in a process that has located more than 128 names
C1_HitAfterEviction ==
    /\ last.op = "find_collection"
    /\ ansible_galaxy_path
    /\ ~last.ran
    /\ last.out.kind = "return"
    /\ Len(hist) > lru_maxsize

\* C5 as stated: with the lister path set, a lister run that exits nonzero or
\* cannot be spawned makes find_collection return None.
C5_ListerFailureReturnsNone ==
    (last.op = "find_collection" /\ ansible_galaxy_path
     /\ last.status \in {"nonzero", "spawn_error"})
        => last.out = Return(PyNone)

\* C5 amended: a nonzero exit makes find_collection return None; a failure to
\* spawn the lister is not caught and find_collection raises OSError.
C5_NonzeroReturnsNoneSpawnFailureRaises ==
    (last.op = "find_collection" /\ ansible_galaxy_path)
        => /\ last.status = "nonzero" => last.out = Return(PyNone)
           /\ last.status = "spawn_error" => last.out = Raise("OSError")

\* C5 witness: a call whose lister could not be spawned raised
C5_SpawnFailureRaised ==
    /\ last.op = "find_collection"
    /\ last.status = "spawn_error"
    /\ last.out.kind = "raise"

\* C4 as stated: when find_collection returned and meta/runtime.yml is missing or
\* was decoded, whatever it decoded to, is_deprecated returns and does not raise.
C4_NeverRaises ==
    (last.op = "is_deprecated" /\ last.locator # "raised"
     /\ last.read \in {"none", "decoded"})
        => last.out.kind = "return"

\* A decoded meta/runtime.yml that is a mapping at every level
WellFormedItem(item) ==
    /\ item.t = "dict"
    /\ REDIRECT \in DOMAIN item.d => item.d[REDIRECT].t = "str"
    /\ DEPRECATION \in DOMAIN item.d =>
          /\ item.d[DEPRECATION].t = "dict"
          /\ \A k \in DOMAIN item.d[DEPRECATION].d : item.d[DEPRECATION].d[k].t = "str"

WellFormedRouting(routing) ==
    /\ routing.t = "dict"
    /\ \A k \in DOMAIN routing.d :
          /\ routing.d[k].t = "dict"
          /\ \A n \in DOMAIN routing.d[k].d : WellFormedItem(routing.d[k].d[n])

WellFormed(data) ==
    /\ data.t = "dict"
    /\ PLUGIN_ROUTING \in DOMAIN data.d => WellFormedRouting(data.d[PLUGIN_ROUTING])

\* plugin_routing["extensions.eda.plugins.<kind>"][name] exists and has a redirect
HasRedirect(data, kind, name) ==
    /\ PLUGIN_ROUTING \in DOMAIN data.d
    /\ routing_key(kind) \in DOMAIN data.d[PLUGIN_ROUTING].d
    /\ name \in DOMAIN data.d[PLUGIN_ROUTING].d[routing_key(kind)].d
    /\ REDIRECT \in DOMAIN data.d[PLUGIN_ROUTING].d[routing_key(kind)].d[name].d

RedirectOf(data, kind, name) ==
    data.d[PLUGIN_ROUTING].d[routing_key(kind)].d[name].d[REDIRECT]

\* The decoded meta/runtime.yml of the collection directory `path`
DocAt(path) == runtime_doc[Components(os_path_join(path.s, <<META, RUNTIME_YML>>))]

\* C8: for a located collection whose meta/runtime.yml decodes to a well-formed
\* mapping, is_deprecated(name, kind) returns (True, t) when
\* plugin_routing["extensions.eda.plugins.<kind>"][name] has redirect t, and
\* (False, None) otherwise.
C8_RedirectExactlyUnderKindAndFullName ==
    (last.op = "is_deprecated" /\ last.read = "decoded" /\ WellFormed(DocAt(last.path)))
        => last.out =
              IF HasRedirect(DocAt(last.path), last.obj_type, last.name)
              THEN Return(PyTuple(<<PyBool(TRUE),
                                    RedirectOf(DocAt(last.path), last.obj_type, last.name)>>))
              ELSE NOT_DEPRECATED

\* C8 witness: a name redirected under event_filter only, asked as event_source
C8_WrongKindNotDeprecated ==
    /\ last.op = "is_deprecated"
    /\ last.read = "decoded"
    /\ DocAt(last.path) = DOC_FILTER
    /\ last.name = PLUGIN_ABP
    /\ last.obj_type = EVENT_SOURCE_OBJ_TYPE
    /\ last.out = NOT_DEPRECATED

\* What is_deprecated gives for the collection directory `path` (or None) with
\* the files as they are now
FreshAnswer(path, name, obj_type) ==
    IF path = PyNone THEN NOT_DEPRECATED
    ELSE IF ~os_path_exists(os_path_join(path.s, <<META, RUNTIME_YML>>), fs)
    THEN NOT_DEPRECATED
    ELSE routing_lookup(DocAt(path), name, obj_type).out

\* C10 as stated: an is_deprecated query for a collection that was located before
\* does not run the lister, uses the location of that earlier locate, and
\* answers from the content meta/runtime.yml has now.
C10_LocationCachedMetadataFresh ==
    [][(IsDeprecatedStep /\ last'.locator # "not consulted"
        /\ last'.collection \in Located(hist))
        => /\ ~last'.ran
           /\ last'.locator = "returned"
           /\ last'.path = HistVal(hist, last'.collection)
           /\ last'.out = FreshAnswer(last'.path, last'.name, last'.obj_type)]_vars

\* C10 amended: the same for a collection among the 128 most recently located
\* names; the location of a name evicted from the cache is looked up again.
C10_RecentLocationCachedMetadataFresh ==
    [][(IsDeprecatedStep /\ last'.locator # "not consulted"
        /\ last'.collection \in Recent(hist))
        => /\ ~last'.ran
           /\ last'.locator = "returned"
           /\ last'.path = HistVal(hist, last'.collection)
           /\ last'.out = FreshAnswer(last'.path, last'.name, last'.obj_type)]_vars

\* C10 witness: a query answered "deprecated" from the cached location, without
\* the lister, in a process that has located more than 128 names
C10_DeprecatedFromCachedLocation ==
    /\ last.op = "is_deprecated"
    /\ ansible_galaxy_path
    /\ ~last.ran
    /\ last.locator = "returned"
    /\ last.out.kind = "return"
    /\ last.out.value.l[1] = PyBool(TRUE)
    /\ Len(hist) > lru_maxsize

\* The find calls, and the sub-paths and extensions each is made with
FindOps == {"find_object", "find_source", "find_source_filter", "find_playbook"}

ObjectTypesOf(call) ==
    IF call.op = "find_object" THEN call.object_types
    ELSE IF call.op = "find_source" THEN EDA_SOURCE_PATHS
    ELSE IF call.op = "find_source_filter" THEN EDA_FILTER_PATHS
    ELSE IF call.op = "find_playbook" THEN EDA_PLAYBOOKS_PATHS
    ELSE RULEBOOK_PATHS

ExtensionsOf(call) ==
    IF call.op = "find_object"
    THEN (IF call.extensions.t = "list" THEN call.extensions.l ELSE <<call.extensions.s>>)
    ELSE IF call.op \in {"find_source", "find_source_filter"} THEN <<PY>>
    ELSE IF call.op = "find_playbook" THEN <<YML, YAML>>
    ELSE <<YML>>

\* The call found its collection installed, at last.located.value
CollectionLocated == last.located.kind = "return" /\ last.located.value # PyNone

CollectionAbsent == last.located = Return(PyNone)

\* <collection directory>/<sub-path>/<name><extension>
Candidate(sub_path, extension) ==
    os_path_join(last.located.value.s, <<sub_path, last.name>>) \o extension

CandidateExists(i, j) ==
    os_path_exists(Candidate(ObjectTypesOf(last).l[i], ExtensionsOf(last)[j]), fs)

NoCandidateExists ==
    \A i \in DOMAIN ObjectTypesOf(last).l, j \in DOMAIN ExtensionsOf(last) :
        ~CandidateExists(i, j)

\* C2 as stated: load_rulebook raises RulebookNotFoundException when the
\* collection is absent and when it exists but holds neither rulebook file.
C2_MissingRulebookRaisesRulebookNotFound ==
    (last.op = "load_rulebook" /\ (CollectionAbsent \/ (CollectionLocated /\ NoCandidateExists)))
        => last.out = Raise("RulebookNotFoundException")

\* C2 amended: load_rulebook raises RulebookNotFoundException when the collection
\* is absent, and FileNotFoundError when it exists but holds neither rulebook file.
C2_AbsentCollectionRulebookNotFoundElseFileNotFound ==
    last.op = "load_rulebook"
        => /\ CollectionAbsent => last.out = Raise("RulebookNotFoundException")
           /\ (CollectionLocated /\ NoCandidateExists)
                 => (last.out.kind = "raise" /\ last.out.exc = "FileNotFoundError")

\* C2 witness: the collection is installed, the rulebook is in neither place
C2_RulebookFileMissing ==
    /\ last.op = "load_rulebook"
    /\ CollectionLocated
    /\ NoCandidateExists
    /\ last.out.kind = "raise"

\* C3 as stated: a find call whose collection is absent fails; it returns nothing.
C3_AbsentCollectionFails ==
    (last.op \in FindOps /\ CollectionAbsent) => last.out.kind = "raise"

\* C3 amended: a find call returns False exactly when its collection is absent;
\* anything else it returns is the path of an entry that exists.
C3_ReturnsFalseWhenAbsentElseExistingPath ==
    last.op \in FindOps
        => /\ CollectionAbsent <=> last.out = Return(PyBool(FALSE))
           /\ (last.out.kind = "return" /\ last.out.value # PyBool(FALSE))
                 => /\ last.out.value.t = "str"
                    /\ os_path_exists(last.out.value.s, fs)

\* C3 witness: a find convenience returned False for an absent collection
C3_FindReturnedFalse ==
    /\ last.op \in FindOps \ {"find_object"}
    /\ CollectionAbsent
    /\ last.out = Return(PyBool(FALSE))

\* C6: with the collection located and the sub-paths given as a sequence, find
\* returns the candidate that exists and has no existing candidate before it,
\* sub-paths compared first and extensions second.
C6_FirstExistingInOrder ==
    (last.op \in FindOps /\ CollectionLocated /\ ObjectTypesOf(last).t = "list")
        => \A i \in DOMAIN ObjectTypesOf(last).l, j \in DOMAIN ExtensionsOf(last) :
              (/\ CandidateExists(i, j)
               /\ \A i2 \in DOMAIN ObjectTypesOf(last).l, j2 \in DOMAIN ExtensionsOf(last) :
                     (i2 < i \/ (i2 = i /\ j2 < j)) => ~CandidateExists(i2, j2))
              => last.out = Return(PyStr(Candidate(ObjectTypesOf(last).l[i],
                                                   ExtensionsOf(last)[j])))

\* C6 witness: the first sub-path has the file with the second extension only,
\* the second sub-path has it with the first extension; the first sub-path won
C6_EarlierSubPathLaterExtensionWon ==
    /\ last.op \in FindOps
    /\ CollectionLocated
    /\ ObjectTypesOf(last).t = "list"
    /\ Len(ObjectTypesOf(last).l) = 2
    /\ Len(ExtensionsOf(last)) = 2
    /\ ~CandidateExists(1, 1)
    /\ CandidateExists(1, 2)
    /\ CandidateExists(2, 1)
    /\ last.out = Return(PyStr(Candidate(ObjectTypesOf(last).l[1], ExtensionsOf(last)[2])))

\* C7 as stated: with the collection located and the sub-paths given as a
\* sequence, possibly empty, a find call with no existing candidate raises
\* FileNotFoundError.
C7_NoCandidateRaisesFileNotFound ==
    (last.op \in FindOps /\ CollectionLocated /\ ObjectTypesOf(last).t = "list"
     /\ NoCandidateExists)
        => (last.out.kind = "raise" /\ last.out.exc = "FileNotFoundError")

\* The outcomes of find_object and has_object for collection a.b and resource r
\* in this state
FindOut(object_types, extensions, run) ==
    find_object(COLL_AB, RESOURCE_R, object_types, extensions, cache,
                ansible_galaxy_path, run, fs).out

HasOut(object_types, extensions, run) ==
    has_object(COLL_AB, RESOURCE_R, object_types, extensions, cache,
               ansible_galaxy_path, run, fs).out

SubPathValues == {<<".">>, EDA_PLAYBOOKS_PATHS.l[2]}

\* C9 as stated: whenever a call can be made, a single extension e gives what [e]
\* gives, and a single sub-path p gives what [p] gives, for has_object and for
\* find_object.
C9_SingleValueSameAsSingleton ==
    last = NoCall => \A run \in ResolverRuns :
        /\ \A e \in {YML, YAML}, ot \in ObjectTypesArgs :
              /\ FindOut(ot, PyStr(e), run) = FindOut(ot, PyList(<<e>>), run)
              /\ HasOut(ot, PyStr(e), run) = HasOut(ot, PyList(<<e>>), run)
        /\ \A p \in SubPathValues, ex \in ExtensionsArgs :
              /\ FindOut(PyStr(p), ex, run) = FindOut(PyList(<<p>>), ex, run)
              /\ HasOut(PyStr(p), ex, run) = HasOut(PyList(<<p>>), ex, run)

\* C9 amended: whenever a call can be made, a single extension e gives what [e]
\* gives; a single sub-path p gives what the list of its characters gives, which
\* is [p] only when p is one character long.
C9_SingleExtensionSameAsSingleton ==
    last = NoCall => \A run \in ResolverRuns :
        /\ \A e \in {YML, YAML}, ot \in ObjectTypesArgs :
              /\ FindOut(ot, PyStr(e), run) = FindOut(ot, PyList(<<e>>), run)
              /\ HasOut(ot, PyStr(e), run) = HasOut(ot, PyList(<<e>>), run)
        /\ \A p \in SubPathValues, ex \in ExtensionsArgs :
              LET chars == PyList([i \in 1..Len(p) |-> <<p[i]>>])
              IN  /\ FindOut(PyStr(p), ex, run) = FindOut(chars, ex, run)
                  /\ HasOut(PyStr(p), ex, run) = HasOut(chars, ex, run)
                  /\ Len(p) = 1 =>
                        /\ FindOut(PyStr(p), ex, run) = FindOut(PyList(<<p>>), ex, run)
                        /\ HasOut(PyStr(p), ex, run) = HasOut(PyList(<<p>>), ex, run)

\* C9 witness: find_object was called with a single extension and found the file
\* that the one-element list finds
C9_SingleExtensionFound ==
    /\ last.op = "find_object"
    /\ last.extensions = PyStr(YML)
    /\ last.out.kind = "return"
    /\ last.out.value.t = "str"
    /\ last.out = FindOut(last.object_types, PyList(<<YML>>), NO_RUN)

====
